---- MODULE Spec2Model ----
(***************************************************************************)
(* git4p4: conversion of a range of git commits into Perforce changelists. *)
(* The model follows main() of git_to_p4.py statement by statement.  The   *)
(* git repository and the Perforce server are the environment: their       *)
(* state is part of the model and changes only through the commands the    *)
(* program issues.                                                         *)
(*                                                                         *)
(* Conventions.  Python indices are kept 0-based (PyAt does the indexing,  *)
(* negative indices included).  None is the empty tuple, Some(x) is <<x>>.  *)
(* A changelist number 0 is Perforce's default changelist.  Commit hashes  *)
(* are the positions 0..n of a linear history, 0 being the commit the p4   *)
(* branch starts at.  Text (commit messages, descriptions, status codes)   *)
(* is a sequence of characters, so that strip() and f[0] are computed.     *)
(***************************************************************************)
EXTENDS Integers, Sequences, FiniteSets, TLC

\* ------------------------------------------------------------------ bounds
\* Longest history (number of commits after the p4 branch point).
MaxCommits == 2

\* ------------------------------------------------------------ python helpers
None == <<>>
Some(x) == <<x>>

\* seq[i] as Python evaluates it; the caller checks InRange first where the
\* code can raise IndexError.
PyAt(seq, i) == IF i < 0 THEN seq[Len(seq) + i + 1] ELSE seq[i + 1]
PyInRange(seq, i) == IF i < 0 THEN -i <= Len(seq) ELSE i < Len(seq)

\* Variant of Reversed: the list is kept as `git rev-list` printed it.
ReversedNot(seq) == seq

\* list(reversed(seq))
Reversed(seq) == [i \in 1..Len(seq) |-> seq[Len(seq) - i + 1]]

Whitespace == {" ", "\n", "\t"}

RECURSIVE LStrip(_)
LStrip(s) == IF s = <<>> THEN s
             ELSE IF Head(s) \in Whitespace THEN LStrip(Tail(s)) ELSE s

RECURSIVE RStrip(_)
RStrip(s) == IF s = <<>> THEN s
             ELSE IF s[Len(s)] \in Whitespace THEN RStrip(SubSeq(s, 1, Len(s) - 1)) ELSE s

\* str.strip()
Strip(s) == RStrip(LStrip(s))

SeqToSet(s) == {s[i] : i \in 1..Len(s)}

\* dict[k] = v
Put(f, k, v) == [x \in (DOMAIN f) \cup {k} |-> IF x = k THEN v ELSE f[x]]

\* ------------------------------------------------------------------ inputs
RelPaths == {"f1", "f2", "f3", "f4", "f5", "f6"}
git_root == "/repo"
\* os.path.join(git_root, relpath)
JoinRoot(rel) == git_root \o "/" \o rel
\* The client view of the workspace: depot file <-> local path.
DepotFile(rel) == "//depot/" \o rel
\* p4 where <depotFile>: the record's "path"
P4Where(d) == JoinRoot(CHOOSE r \in RelPaths : DepotFile(r) = d)
\* p4 fstat <path>: the record's "depotFile"
P4Fstat(l) == DepotFile(CHOOSE r \in RelPaths : JoinRoot(r) = l)

DiffLine(st, ps) == [status |-> st, relpaths |-> ps]

\* The commits a history is made of: the output of `git log --format=%B`
\* and of `git diff-tree --name-status -r -M`.
CommitShapes ==
  << [msg  |-> <<"B", "\n", "\n">>,
      diff |-> << DiffLine(<<"M">>, <<"f1">>), DiffLine(<<"A">>, <<"f2">>) >>],
     [msg  |-> <<" ", "B", "\n">>,
      diff |-> << DiffLine(<<"D">>, <<"f3">>) >>],
     [msg  |-> <<"R", "\n", "\n">>,
      diff |-> << DiffLine(<<"R", "1", "0", "0">>, <<"f6", "f3">>),
                  DiffLine(<<"M">>, <<"f2">>),
                  DiffLine(<<"R", "0", "9", "0">>, <<"f4", "f5">>) >>],
     [msg  |-> <<"T", "\n", "\n">>,
      diff |-> << DiffLine(<<"M">>, <<"f3">>), DiffLine(<<"T">>, <<"f4">>) >>] >>

Histories == UNION {[1..n -> SeqToSet(CommitShapes)] : n \in 0..MaxCommits}

Pending(change, desc) == [change |-> change, desc |-> desc]
OpenedIn(files, change) == [d \in {DepotFile(r) : r \in files} |-> change]

\* Perforce workspaces the run may start in: the pending changelists of the
\* client (with the description as stored) and the opened files.
Workspaces ==
  { [pending |-> {}, opened |-> << >>],
    [pending |-> {Pending(10, <<"B", "\n">>)},
     opened  |-> OpenedIn({"f1"}, 10)],
    [pending |-> {Pending(10, <<"B", "\n">>), Pending(11, <<"U", "\n">>)},
     opened  |-> OpenedIn({"f1"}, 10) @@ OpenedIn({"f2"}, 11)],
    [pending |-> {Pending(10, <<"B", "\n">>), Pending(11, <<" ", "B", "\n">>),
                  Pending(12, <<"U", "\n">>)},
     opened  |-> OpenedIn({"f1"}, 11) @@ OpenedIn({"f3"}, 12)] }

git_default_branch == "master"
Branch(name) == <<"branch", name>>
Detached(hash) == <<"commit", hash>>

\* Where HEAD is when the run starts (n is the tip of the history).
StartHeads(n) == {Branch("master"), Detached(n)}

\* argparse namespace, before the convenience flag is applied
RawArgs ==
  [p4_work : BOOLEAN, no_revert : BOOLEAN, no_shelve : BOOLEAN,
   ignore_opened : BOOLEAN, stay : BOOLEAN, no_p4_branch : BOOLEAN,
   dry_run : BOOLEAN, range : {None}]

\* Lines 75-78: if args.p4_work: ...  (the flags the run reads afterwards)
ConvenienceFlags(a) ==
  [no_revert     |-> IF a.p4_work THEN TRUE ELSE a.no_revert,
   ignore_opened |-> IF a.p4_work THEN TRUE ELSE a.ignore_opened,
   stay          |-> IF a.p4_work THEN TRUE ELSE a.stay,
   no_shelve     |-> a.no_shelve,
   no_p4_branch  |-> a.no_p4_branch,
   dry_run       |-> a.dry_run,
   range         |-> a.range]

\* ------------------------------------------------------------------- state
VARIABLES
  args,                     \* the parsed command line
  history,                  \* git: the commits 1..n after the branch point
  gitDirty,                 \* git: `status --porcelain` prints something
  gitHead,                  \* git: Branch(name) or Detached(hash)
  gitBranches,              \* git: branch name -> hash
  p4Pending,                \* p4: pending changelists {[change, desc]}
  p4Opened,                 \* p4: opened depot file -> changelist (0: default)
  p4Shelved,                \* p4: changelist -> shelved depot files
  pc,                       \* position in main()
  returned,                 \* NotReturned, Return(status) or ReturnNone
  raised,                   \* the exception that ended main(), or None
  current_head, current_branch, p4_hash, master_hash,
  commit_list,
  files_in_p4_pending_cls,  \* local paths open in p4 (seeded, then claimed)
  p4_reusable_cls,          \* stripped description -> changelist
  ret_status,
  last_processed_commit_idx,
  commit_idx,
  p4_reusable_cl,           \* of the commit being converted
  p4_to_rename,             \* its renames, in the set's iteration order
  old_local_to_depot_paths,
  run,                      \* 1 for the first invocation, 2 for a re-run
  log,                      \* the gateway calls issued and the count logged, in order
  outcome,                  \* per commit index: what the loop decided
  start                     \* git and p4 as they were when the run began

gitVars == <<history, gitDirty, gitHead, gitBranches>>
p4Vars == <<p4Pending, p4Opened, p4Shelved>>
setupVars == <<current_head, current_branch, p4_hash, master_hash>>
seedVars == <<files_in_p4_pending_cls, p4_reusable_cls>>
commitVars == <<p4_reusable_cl, p4_to_rename, old_local_to_depot_paths>>
loopVars == <<ret_status, last_processed_commit_idx, commit_idx>>
vars == <<args, gitVars, p4Vars, pc, returned, raised, setupVars, commit_list,
          seedVars, loopVars, commitVars, run, log, outcome, start>>

\* main() has not returned, returned an integer, or fell off its end.
NotReturned == <<>>
Return(v) == <<"int", v>>
ReturnNone == <<"None">>

\* One gateway call: the command, the changelist it names or, for a
\* creation, the one the server saved (0: none), its
\* path arguments, the git ref it names, and the commit index of the loop
\* iteration that issued it (-1 outside the loop).
Call(cmd, change, paths, ref, at) ==
  [cmd |-> cmd, change |-> change, paths |-> paths, ref |-> ref, at |-> at]

\* git rev-parse <ref>
HeadCommit == IF gitHead[1] = "branch" THEN gitBranches[gitHead[2]] ELSE gitHead[2]

\* git rev-list --ancestry-path a..b on the linear history: newest first
RevList(a, b) == IF b > a THEN [i \in 1..(b - a) |-> b - i + 1] ELSE <<>>

Snapshot(head, branches, pending, opened) ==
  [head |-> head, branches |-> branches, pending |-> pending, opened |-> opened]

LocalState ==
  /\ returned = NotReturned /\ raised = None
  /\ current_head = None /\ current_branch = ""
  /\ p4_hash = None /\ master_hash = None
  /\ commit_list = <<>>
  /\ files_in_p4_pending_cls = {}
  /\ p4_reusable_cls = << >>
  /\ ret_status = 0
  /\ last_processed_commit_idx = -1
  /\ commit_idx = -1
  /\ p4_reusable_cl = None
  /\ p4_to_rename = <<>>
  /\ old_local_to_depot_paths = <<>>
  /\ log = <<>>
  /\ outcome = << >>

Init ==
  /\ args \in {ConvenienceFlags(a) : a \in RawArgs}
  /\ history \in Histories
  /\ gitDirty \in BOOLEAN
  /\ gitBranches = [b \in {"master", "p4"} |->
                      IF b = "p4" THEN 0 ELSE Len(history)]
  /\ gitHead \in StartHeads(Len(history))
  /\ \E w \in Workspaces :
       /\ p4Pending = w.pending
       /\ p4Opened = w.opened
       /\ p4Shelved = [c \in {p.change : p \in w.pending} |-> {}]
  /\ pc = "start"
  /\ run = 1
  /\ LocalState
  /\ start = Snapshot(gitHead, gitBranches, p4Pending, p4Opened)

\* Variant of CheckLocalChanges: the result of `git status` is not looked at.
CheckLocalChangesIgnored ==
  /\ pc = "start"
  /\ current_head' = Some(HeadCommit)
  /\ current_branch' = IF gitHead[1] = "branch" THEN gitHead[2] ELSE ""
  /\ p4_hash' = IF "p4" \in DOMAIN gitBranches
                THEN Detached(gitBranches["p4"]) ELSE <<"HEAD">>
  /\ master_hash' = Some(gitBranches[git_default_branch])
  /\ pc' = "range"
  /\ UNCHANGED <<args, gitVars, p4Vars, returned, raised, commit_list, seedVars,
                 loopVars, commitVars, run, log, outcome, start>>

\* Lines 86-108: the dirty check, then the starting position and the two
\* branch heads.
CheckLocalChanges ==
  /\ pc = "start"
  /\ IF gitDirty
     THEN /\ returned' = Return(1)
          /\ pc' = "done"
          /\ UNCHANGED setupVars
     ELSE /\ current_head' = Some(HeadCommit)
          /\ current_branch' = IF gitHead[1] = "branch" THEN gitHead[2] ELSE ""
          /\ p4_hash' = IF "p4" \in DOMAIN gitBranches
                        THEN Detached(gitBranches["p4"]) ELSE <<"HEAD">>
          /\ master_hash' = Some(gitBranches[git_default_branch])
          /\ pc' = "range"
          /\ UNCHANGED returned
  /\ UNCHANGED <<args, gitVars, p4Vars, raised, commit_list, seedVars, loopVars,
                 commitVars, run, log, outcome, start>>

\* Lines 113-116: the range handed to rev-list, as a pair of hashes.
HashRange ==
  IF args.range # None /\ args.range[1] = "range"
  THEN <<args.range[2], args.range[3]>>
  ELSE << IF p4_hash = <<"HEAD">> THEN HeadCommit ELSE p4_hash[2],
          IF args.range # None THEN args.range[2]
          ELSE gitBranches[git_default_branch] >>

\* Variant of ComputeRange: the workspace is asked for its identity before
\* the list is looked at.
ComputeRangeInfoFirst ==
  /\ pc = "range"
  /\ LET listed == RevList(HashRange[1], HashRange[2]) IN
       IF listed = <<>>
       THEN /\ returned' = Return(0)
            /\ pc' = "done"
            /\ UNCHANGED commit_list
       ELSE /\ commit_list' = Reversed(listed)
            /\ pc' = "seed"
            /\ UNCHANGED returned
  /\ log' = log \o <<Call("p4 info", 0, <<>>, None, -1)>>
  /\ UNCHANGED <<args, gitVars, p4Vars, raised, setupVars, seedVars, loopVars,
                 commitVars, run, outcome, start>>

\* Lines 110-126.
ComputeRange ==
  /\ pc = "range"
  /\ LET listed == RevList(HashRange[1], HashRange[2]) IN
       IF listed = <<>>
       THEN /\ returned' = Return(0)
            /\ pc' = "done"
            /\ UNCHANGED commit_list
       ELSE /\ commit_list' = Reversed(listed)
            /\ pc' = "seed"
            /\ UNCHANGED returned
  /\ UNCHANGED <<args, gitVars, p4Vars, raised, setupVars, seedVars, loopVars,
                 commitVars, run, log, outcome, start>>

\* p4 changes -l -s pending -c <client>: most recent changelist first, the
\* description with the newline the server ends it with.
P4Changes ==
  LET ids == {p.change : p \in p4Pending}
      RECURSIVE Desc(_)
      Desc(S) == IF S = {} THEN <<>>
                 ELSE LET m == CHOOSE x \in S : \A y \in S : y <= x
                          p == CHOOSE q \in p4Pending : q.change = m
                      IN <<p>> \o Desc(S \ {m})
  IN Desc(ids)

\* Variant of BuildReusable: the descriptions are indexed as the server
\* returns them, not stripped.
RECURSIVE BuildReusableUnstripped(_, _)
BuildReusableUnstripped(pending, acc) ==
  IF pending = <<>> THEN acc
  ELSE BuildReusableUnstripped(Tail(pending),
                               Put(acc, Head(pending).desc, Head(pending).change))

\* Variant of BuildReusable: a description already indexed keeps its
\* changelist.
RECURSIVE BuildReusableFirstWins(_, _)
BuildReusableFirstWins(pending, acc) ==
  IF pending = <<>> THEN acc
  ELSE BuildReusableFirstWins(Tail(pending),
         IF Strip(Head(pending).desc) \in DOMAIN acc THEN acc
         ELSE Put(acc, Strip(Head(pending).desc), Head(pending).change))

\* Lines 150-153: the loop over the pending changelists.
RECURSIVE BuildReusable(_, _)
BuildReusable(pending, acc) ==
  IF pending = <<>> THEN acc
  ELSE BuildReusable(Tail(pending),
                     Put(acc, Strip(Head(pending).desc), Head(pending).change))

\* Variant of SeedOpened: under --dry-run the opened files are not looked up.
SeedOpenedUnlessDryRun ==
  IF args.ignore_opened \/ args.dry_run THEN {}
  ELSE {P4Where(d) : d \in DOMAIN p4Opened}

\* Lines 136-146: `p4 opened`, then `p4 where` on the depot files.
SeedOpened == IF args.ignore_opened THEN {} ELSE {P4Where(d) : d \in DOMAIN p4Opened}

SeedCalls ==
  <<Call("p4 info", 0, <<>>, None, -1)>>
  \o (IF args.ignore_opened THEN <<>>
      ELSE <<Call("p4 opened", 0, <<>>, None, -1)>>
           \o (IF DOMAIN p4Opened = {} THEN <<>>
               ELSE <<Call("p4 where", 0, <<>>, None, -1)>>))
  \o <<Call("p4 changes", 0, <<>>, None, -1)>>

\* Lines 128-157.
SeedWorkspace ==
  /\ pc = "seed"
  /\ files_in_p4_pending_cls' = SeedOpened
  /\ \E p4_pending_cls \in {P4Changes} :
       p4_reusable_cls' = BuildReusable(p4_pending_cls, << >>)
  /\ log' = log \o SeedCalls
  /\ pc' = "loop"
  /\ UNCHANGED <<args, gitVars, p4Vars, returned, raised, setupVars, commit_list,
                 loopVars, commitVars, run, outcome, start>>

\* ------------------------------------------------------- one commit: read
\* The commit the loop is at.
CommitAt(idx) == history[PyAt(commit_list, idx)]

IsRename(line) == Head(line.status) = "R"

\* Lines 174-186.
GitFileList(c) ==
  [i \in 1..Len(c.diff) |->
     JoinRoot(IF ~IsRename(c.diff[i]) THEN c.diff[i].relpaths[1]
              ELSE c.diff[i].relpaths[2])]

GitFileRenamedFromList(c) ==
  [i \in 1..Len(c.diff) |->
     IF ~IsRename(c.diff[i]) THEN None ELSE Some(JoinRoot(c.diff[i].relpaths[1]))]

GitFileStatuses(c) == [i \in 1..Len(c.diff) |-> c.diff[i].status]

RECURSIVE NotNone(_)
NotNone(s) == IF s = <<>> THEN <<>>
              ELSE (IF Head(s) = None THEN <<>> ELSE <<Head(s)[1]>>) \o NotNone(Tail(s))

GitAllFiles(c) == GitFileList(c) \o NotNone(GitFileRenamedFromList(c))

\* Variant of ReusableFor: the message is stripped on the right only.
ReusableForRightStripped(msg) ==
  IF RStrip(msg) \in DOMAIN p4_reusable_cls THEN Some(p4_reusable_cls[RStrip(msg)])
  ELSE None

\* Line 194: p4_reusable_cls.get(commit_msg.strip())
ReusableFor(msg) ==
  IF Strip(msg) \in DOMAIN p4_reusable_cls THEN Some(p4_reusable_cls[Strip(msg)])
  ELSE None

\* Lines 199-206: `p4 opened -c <cl>`, then `p4 where`, as local paths.
OpenedFiles(opened, cl) == {d \in DOMAIN opened : opened[d] = cl}
P4OpenedFiles(cl) == {P4Where(d) : d \in OpenedFiles(p4Opened, cl)}

\* Lines 225-231: the loop over git_all_files; every file is added to the
\* ledger as it is met.
RECURSIVE LedgerScan(_, _, _)
LedgerScan(files, ledger, already) ==
  IF files = <<>> THEN [ledger |-> ledger, already |-> already]
  ELSE LedgerScan(Tail(files), ledger \cup {Head(files)},
                  IF Head(files) \in ledger THEN already \cup {Head(files)}
                  ELSE already)

\* Variant of Classify: a status the loop does not know is skipped.
RECURSIVE ClassifySkipUnknown(_, _, _)
ClassifySkipUnknown(c, i, acc) ==
  IF i > Len(c.diff) THEN acc
  ELSE LET f == GitFileList(c)[i]
           old_f == GitFileRenamedFromList(c)[i]
           stat == GitFileStatuses(c)[i]
       IN IF stat = <<"A">>
          THEN ClassifySkipUnknown(c, i + 1, [acc EXCEPT !.add = @ \cup {f}])
          ELSE IF stat = <<"M">>
          THEN ClassifySkipUnknown(c, i + 1, [acc EXCEPT !.edit = @ \cup {f}])
          ELSE IF Head(stat) = "R"
          THEN ClassifySkipUnknown(c, i + 1, [acc EXCEPT !.rename = @ \cup {<<old_f[1], f>>}])
          ELSE IF stat = <<"D">>
          THEN ClassifySkipUnknown(c, i + 1, [acc EXCEPT !.delete = @ \cup {f}])
          ELSE ClassifySkipUnknown(c, i + 1, acc)

\* Lines 243-259: the classification loop, which stops at the first status
\* it does not know.
RECURSIVE Classify(_, _, _)
Classify(c, i, acc) ==
  IF i > Len(c.diff) THEN acc
  ELSE LET f == GitFileList(c)[i]
           old_f == GitFileRenamedFromList(c)[i]
           stat == GitFileStatuses(c)[i]
       IN IF stat = <<"A">> THEN Classify(c, i + 1, [acc EXCEPT !.add = @ \cup {f}])
          ELSE IF stat = <<"M">> THEN Classify(c, i + 1, [acc EXCEPT !.edit = @ \cup {f}])
          ELSE IF Head(stat) = "R"
               THEN Classify(c, i + 1, [acc EXCEPT !.rename = @ \cup {<<old_f[1], f>>}])
          ELSE IF stat = <<"D">> THEN Classify(c, i + 1, [acc EXCEPT !.delete = @ \cup {f}])
          ELSE [acc EXCEPT !.ret_status = 1]

Classified(c) ==
  Classify(c, 1, [add |-> {}, edit |-> {}, rename |-> {}, delete |-> {}, ret_status |-> 0])

\* The orders in which a Python set can be iterated.
Orders(S) == {s \in [1..Cardinality(S) -> S] : \A i, j \in DOMAIN s : s[i] = s[j] => i = j}

\* What the loop decided for a commit.
Outcome(kind, reuse, checked, fits) ==
  [kind |-> kind, reuse |-> reuse, checked |-> checked, fits |-> fits, change |-> 0]

\* Variant of ReuseMismatch: the files opened in the candidate are not
\* compared with the commit's files.
ReuseMismatchNever(c, cl) == FALSE

\* Lines 192-221: the reuse candidate and its validation.
ReuseMismatch(c, cl) ==
  /\ cl # None
  /\ P4OpenedFiles(cl[1]) # {}
  /\ P4OpenedFiles(cl[1]) \ SeqToSet(GitAllFiles(c)) # {}

\* Variant of CheckFileList: the ledger is consulted only for a commit
\* without reuse candidate.
CheckFileListWithoutCandidate(cl) == cl = None

\* Line 193, 219: whether the ledger is consulted.
CheckFileList(cl) == ~(cl # None /\ P4OpenedFiles(cl[1]) # {})

ReuseCalls(cl, idx) ==
  IF cl = None THEN <<>>
  ELSE <<Call("p4 opened", cl[1], <<>>, None, idx)>>
       \o (IF P4OpenedFiles(cl[1]) = {} THEN <<>>
           ELSE <<Call("p4 where", 0, <<>>, None, idx)>>)

\* Lines 165-268: one iteration up to the first mutating call.
Reconcile ==
  /\ pc = "loop"
  /\ LET idx == last_processed_commit_idx + 1
         c == CommitAt(idx)
         cl == ReusableFor(c.msg)
         check == CheckFileList(cl)
         scan == LedgerScan(GitAllFiles(c), files_in_p4_pending_cls, {})
         cls == Classified(c)
         \* the pending changelists whose opened files all belong to the commit
         fits == {p.change : p \in {q \in p4Pending :
                     P4OpenedFiles(q.change) \subseteq SeqToSet(GitAllFiles(c))}}
         stop(kind, ledger) ==
           /\ ret_status' = 1
           /\ pc' = "finish"
           /\ files_in_p4_pending_cls' = ledger
           /\ outcome' = Put(outcome, idx, Outcome(kind, cl, check, fits))
           /\ log' = log \o ReuseCalls(cl, idx)
           /\ UNCHANGED <<raised, p4_to_rename, old_local_to_depot_paths>>
     IN
       /\ commit_idx' = idx
       /\ p4_reusable_cl' = cl
       /\ IF ReuseMismatch(c, cl)
          THEN stop("mismatch", files_in_p4_pending_cls)
          ELSE IF check /\ scan.already # {}
          THEN stop("conflict", scan.ledger)
          ELSE LET ledger == IF check THEN scan.ledger ELSE files_in_p4_pending_cls IN
            IF cls.ret_status > 0
            THEN stop("unsupported", ledger)
            ELSE
              /\ files_in_p4_pending_cls' = ledger
              /\ \E order \in Orders(cls.rename) :
                 \E known \in SUBSET {ren[1] : ren \in cls.rename} :
                   LET entries == NotNone([i \in 1..Len(order) |->
                                     IF order[i][1] \in known
                                     THEN Some(P4Fstat(order[i][1])) ELSE None])
                       calls == ReuseCalls(cl, idx)
                                \o (IF cls.rename = {} THEN <<>>
                                    ELSE <<Call("p4 fstat", 0,
                                                [i \in 1..Len(order) |-> order[i][1]],
                                                None, idx)>>)
                   IN /\ p4_to_rename' = order
                      /\ old_local_to_depot_paths' = entries
                      /\ log' = log \o calls
                      /\ IF cls.rename # {} /\ entries = <<>>
                         THEN /\ raised' = Some("P4EntryNotFound")
                              /\ pc' = "crashed"
                              /\ outcome' = Put(outcome, idx, Outcome("notfound", cl, check, fits))
                         ELSE /\ pc' = "apply"
                              /\ outcome' = Put(outcome, idx, Outcome("planned", cl, check, fits))
                              /\ UNCHANGED raised
              /\ UNCHANGED ret_status
  /\ UNCHANGED <<args, gitVars, p4Vars, returned, setupVars, commit_list,
                 p4_reusable_cls, last_processed_commit_idx, run, start>>

\* ------------------------------------------------------ one commit: apply
\* p4 add / edit / delete <paths>: a file not yet opened is opened in the
\* default changelist, an opened file stays where it is.
P4Open(opened, paths) ==
  [d \in (DOMAIN opened) \cup {P4Fstat(l) : l \in paths} |->
     IF d \in DOMAIN opened THEN opened[d] ELSE 0]

\* p4 move -k <old> <new>: the new file is opened beside the old one; the
\* server refuses when the old path is not opened.
P4Move(opened, old, new) ==
  IF P4Fstat(old) \in DOMAIN opened
  THEN [d \in (DOMAIN opened) \cup {P4Fstat(new)} |->
          IF d = P4Fstat(new) THEN opened[P4Fstat(old)] ELSE opened[d]]
  ELSE opened

\* p4 reopen -c <cl> <paths>: the opened files among the paths move to cl.
P4Reopen(opened, cl, paths) ==
  [d \in DOMAIN opened |-> IF P4Where(d) \in paths THEN cl ELSE opened[d]]

\* p4 revert -k -c <cl> //...
P4Revert(opened, cl) ==
  [d \in {x \in DOMAIN opened : opened[x] # cl} |-> opened[d]]

\* p4 shelve -r -c <cl>: the shelf becomes the files opened in cl.
P4Shelve(shelved, opened, cl) == Put(shelved, cl, OpenedFiles(opened, cl))

\* p4 change -i: the next changelist number and the server's confirmation.
P4NextChange ==
  IF p4Pending = {} THEN 10
  ELSE 1 + (CHOOSE m \in {p.change : p \in p4Pending} :
              \A p \in p4Pending : p.change <= m)

P4Created(change) == [code |-> "info", data |-> <<"Change", change, "created">>]

\* What `p4 change -i` can answer: the confirmation, a message of another
\* form once the changelist is saved, or an error (non-zero exit).
P4ChangeReplies(change) ==
  { P4Created(change),
    [code |-> "info", data |-> <<"Change", change, "saved">>],
    [code |-> "error", data |-> <<"Change", change, "refused">>] }

\* _p4.py get_created_changelist_id: re.match(r"Change (?P<id>\d+) created")
get_created_changelist_id(outdata) ==
  IF Len(outdata.data) >= 3 /\ outdata.data[1] = "Change" /\ outdata.data[3] = "created"
  THEN Some(outdata.data[2]) ELSE None

\* Variant of OpenCalls: the files to edit are opened before the files to add.
OpenCallsEditFirst(cls, idx) ==
  LET one(paths, cmd) ==
        IF paths = {} THEN <<>>
        ELSE <<Call(cmd, 0, CHOOSE s \in Orders(paths) : TRUE, None, idx)>>
  IN one(cls.edit, "p4 edit") \o one(cls.add, "p4 add") \o one(cls.delete, "p4 delete")

\* Lines 290-296: one call per non-empty set, in this order.
OpenCalls(cls, idx) ==
  LET one(paths, cmd) ==
        IF paths = {} THEN <<>>
        ELSE <<Call(cmd, 0, CHOOSE s \in Orders(paths) : TRUE, None, idx)>>
  IN one(cls.add, "p4 add") \o one(cls.edit, "p4 edit") \o one(cls.delete, "p4 delete")

\* Variant of RenameLoop: the move is issued before the edit.
RECURSIVE RenameLoopMoveFirst(_, _, _, _, _)
RenameLoopMoveFirst(i, renames, depots, idx, acc) ==
  IF i >= Len(renames) THEN acc
  ELSE IF ~PyInRange(depots, i) THEN [acc EXCEPT !.ok = FALSE]
  ELSE LET old_path == PyAt(renames, i)[1]
           path == PyAt(renames, i)[2]
           old_depot_path == PyAt(depots, i)
           moved == P4Move(acc.opened, old_path, path)
       IN RenameLoopMoveFirst(i + 1, renames, depots, idx,
            [acc EXCEPT
               !.opened = P4Open(moved, {P4Where(old_depot_path)}),
               !.calls = @ \o <<Call("p4 move -k", 0, <<old_path, path>>, None, idx),
                                Call("p4 edit -k", 0, <<old_depot_path>>, None, idx)>>])

\* Lines 300-303: the rename loop from position i (0-based) on.  It ends
\* normally, or with IndexError where the fstat records run out.
RECURSIVE RenameLoop(_, _, _, _, _)
RenameLoop(i, renames, depots, idx, acc) ==
  IF i >= Len(renames) THEN acc
  ELSE IF ~PyInRange(depots, i) THEN [acc EXCEPT !.ok = FALSE]
  ELSE LET old_path == PyAt(renames, i)[1]
           path == PyAt(renames, i)[2]
           old_depot_path == PyAt(depots, i)
           edited == P4Open(acc.opened, {P4Where(old_depot_path)})
       IN RenameLoop(i + 1, renames, depots, idx,
            [acc EXCEPT
               !.opened = P4Move(edited, old_path, path),
               !.calls = @ \o <<Call("p4 edit -k", 0, <<old_depot_path>>, None, idx),
                                Call("p4 move -k", 0, <<old_path, path>>, None, idx)>>])

\* Variant of ShelveCalls: the revert does not depend on the shelve.
ShelveCallsRevertUnlessNoRevert(cl, idx) ==
  (IF args.no_shelve THEN <<>> ELSE <<Call("p4 shelve", cl, <<>>, None, idx)>>)
  \o (IF args.no_revert THEN <<>> ELSE <<Call("p4 revert -k", cl, <<>>, None, idx)>>)

\* Lines 311-317.
ShelveCalls(cl, idx) ==
  IF args.no_shelve THEN <<>>
  ELSE <<Call("p4 shelve", cl, <<>>, None, idx)>>
       \o (IF args.no_revert THEN <<>>
           ELSE <<Call("p4 revert -k", cl, <<>>, None, idx)>>)

\* Lines 270-317 and 338: the commit is checked out and its changelist is
\* created or reused, filled, shelved and reverted.  run_command raises
\* P4Error when `p4 change -i` fails, get_created_changelist_id raises it
\* when the confirmation cannot be parsed, and the rename loop raises
\* IndexError where the fstat records run out.
Materialize ==
  /\ pc = "apply"
  /\ ~args.dry_run
  /\ \E p4_created \in (IF p4_reusable_cl # None THEN {P4Created(p4_reusable_cl[1])}
                         ELSE P4ChangeReplies(P4NextChange)) :
     LET idx == commit_idx
         commit == PyAt(commit_list, idx)
         c == CommitAt(idx)
         cls == Classified(c)
         creates == p4_reusable_cl = None
         saved == creates /\ p4_created.code = "info"
         new_cl_id == IF ~creates THEN p4_reusable_cl
                      ELSE IF p4_created.code = "info"
                           THEN get_created_changelist_id(p4_created)
                           ELSE None
         pending == IF saved THEN p4Pending \cup {Pending(P4NextChange, c.msg)}
                    ELSE p4Pending
         shelved0 == IF saved THEN Put(p4Shelved, P4NextChange, {}) ELSE p4Shelved
         head == <<Call("git checkout", 0, <<>>, Detached(commit), idx)>>
                 \o (IF ~creates THEN <<>>
                     ELSE <<Call("p4 change -i", IF saved THEN P4NextChange ELSE 0,
                                 <<>>, None, idx)>>)
         opened1 == P4Open(p4Opened, cls.add \cup cls.edit \cup cls.delete)
         ren == RenameLoop(0, p4_to_rename, old_local_to_depot_paths, idx,
                           [opened |-> opened1, calls |-> <<>>, ok |-> TRUE])
         opened2 == P4Reopen(ren.opened, new_cl_id[1], SeqToSet(GitAllFiles(c)))
         shelved1 == IF args.no_shelve THEN shelved0
                     ELSE P4Shelve(shelved0, opened2, new_cl_id[1])
         opened3 == IF args.no_shelve \/ args.no_revert THEN opened2
                    ELSE P4Revert(opened2, new_cl_id[1])
     IN
       /\ gitHead' = Detached(commit)
       /\ p4Pending' = pending
       /\ IF new_cl_id = None
          THEN /\ p4Shelved' = shelved0
               /\ log' = log \o head
               /\ raised' = Some("P4Error")
               /\ outcome' = [outcome EXCEPT ![idx].kind =
                               IF p4_created.code = "error" THEN "p4error"
                               ELSE "unparsable"]
               /\ pc' = "crashed"
               /\ UNCHANGED <<p4Opened, last_processed_commit_idx>>
          ELSE IF ren.ok
          THEN /\ p4Opened' = opened3
               /\ p4Shelved' = shelved1
               /\ log' = log \o head \o OpenCalls(cls, idx) \o ren.calls
                           \o <<Call("p4 reopen", new_cl_id[1], GitAllFiles(c), None, idx)>>
                           \o ShelveCalls(new_cl_id[1], idx)
               /\ last_processed_commit_idx' = idx
               /\ outcome' = [outcome EXCEPT ![idx].kind = "converted",
                                             ![idx].change = new_cl_id[1]]
               /\ pc' = IF idx + 1 < Len(commit_list) THEN "loop" ELSE "finish"
               /\ UNCHANGED raised
          ELSE /\ p4Opened' = ren.opened
               /\ p4Shelved' = shelved0
               /\ log' = log \o head \o OpenCalls(cls, idx) \o ren.calls
               /\ raised' = Some("IndexError")
               /\ outcome' = [outcome EXCEPT ![idx].kind = "indexerror",
                                             ![idx].change = new_cl_id[1]]
               /\ pc' = "crashed"
               /\ UNCHANGED last_processed_commit_idx
  /\ UNCHANGED <<args, history, gitDirty, gitBranches, returned, setupVars,
                 commit_list, seedVars, ret_status, commit_idx, commitVars, run, start>>

\* Lines 318-338: under --dry-run the plan is only logged.
Report ==
  /\ pc = "apply"
  /\ args.dry_run
  /\ last_processed_commit_idx' = commit_idx
  /\ outcome' = [outcome EXCEPT ![commit_idx].kind = "reported"]
  /\ pc' = IF commit_idx + 1 < Len(commit_list) THEN "loop" ELSE "finish"
  /\ UNCHANGED <<args, gitVars, p4Vars, returned, raised, setupVars, commit_list,
                 seedVars, ret_status, commit_idx, commitVars, run, log, start>>

\* ------------------------------------------------------------ after the loop
\* Line 345.
new_p4_head == PyAt(commit_list, last_processed_commit_idx)

\* Variant of ConvertedReport: the index of the last converted commit is
\* logged as the count.
ConvertedReportOfIndex ==
  <<Call("log Converted commits", 0, <<>>, <<"count", last_processed_commit_idx>>, -1)>>

\* Line 344: logger.info("Converted commits: %d" % (last_processed_commit_idx + 1))
ConvertedReport ==
  <<Call("log Converted commits", 0, <<>>, <<"count", last_processed_commit_idx + 1>>, -1)>>

\* Lines 344-357: the count is logged, then the p4 branch is moved, or the
\* user is told to move it (a message whose format string has two fields and
\* one argument).
ResetP4Branch ==
  /\ pc = "finish"
  /\ IF ~args.no_p4_branch
     THEN IF ~args.dry_run
          THEN IF "p4" \in DOMAIN gitBranches
               THEN /\ gitHead' = Branch("p4")
                    /\ gitBranches' = [gitBranches EXCEPT !["p4"] = new_p4_head]
                    /\ log' = log \o ConvertedReport
                                  \o <<Call("git checkout", 0, <<>>, Branch("p4"), -1),
                                       Call("git reset --hard", 0, <<>>,
                                            Detached(new_p4_head), -1)>>
                    /\ pc' = "return"
                    /\ UNCHANGED raised
               ELSE /\ raised' = Some("GitError")
                    /\ log' = log \o ConvertedReport
                                  \o <<Call("git checkout", 0, <<>>, Branch("p4"), -1)>>
                    /\ pc' = "crashed"
                    /\ UNCHANGED <<gitHead, gitBranches>>
          ELSE /\ pc' = "return"
               /\ log' = log \o ConvertedReport
               /\ UNCHANGED <<gitHead, gitBranches, raised>>
     ELSE /\ raised' = Some("TypeError")
          /\ log' = log \o ConvertedReport
          /\ pc' = "crashed"
          /\ UNCHANGED <<gitHead, gitBranches>>
  /\ UNCHANGED <<args, history, gitDirty, p4Vars, returned, setupVars, commit_list,
                 seedVars, loopVars, commitVars, run, outcome, start>>

\* Line 361: current_branch or current_head, as a ref.
return_hash ==
  IF current_branch # "" THEN Branch(current_branch) ELSE Detached(current_head[1])

\* Variant of ReturnHead: the checkout is issued under --dry-run too.
ReturnHeadInDryRun ==
  /\ pc = "return"
  /\ IF ~args.stay
     THEN /\ gitHead' = return_hash
          /\ log' = log \o <<Call("git checkout", 0, <<>>, return_hash, -1)>>
     ELSE UNCHANGED <<gitHead, log>>
  /\ pc' = "switch"
  /\ UNCHANGED <<args, history, gitDirty, gitBranches, p4Vars, returned, raised,
                 setupVars, commit_list, seedVars, loopVars, commitVars, run, outcome,
                 start>>

\* Lines 359-369.
ReturnHead ==
  /\ pc = "return"
  /\ IF ~args.stay /\ ~args.dry_run
     THEN /\ gitHead' = return_hash
          /\ log' = log \o <<Call("git checkout", 0, <<>>, return_hash, -1)>>
     ELSE UNCHANGED <<gitHead, log>>
  /\ pc' = "switch"
  /\ UNCHANGED <<args, history, gitDirty, gitBranches, p4Vars, returned, raised,
                 setupVars, commit_list, seedVars, loopVars, commitVars, run, outcome, start>>

\* Lines 371-381, then the end of main(), which returns nothing.
SwitchToDefault ==
  /\ pc = "switch"
  /\ IF ~args.no_p4_branch /\ Some(HeadCommit) = master_hash /\ ~args.dry_run
     THEN /\ gitHead' = Branch(git_default_branch)
          /\ log' = log \o <<Call("git checkout", 0, <<>>, Branch(git_default_branch), -1)>>
     ELSE UNCHANGED <<gitHead, log>>
  /\ returned' = ReturnNone
  /\ pc' = "done"
  /\ UNCHANGED <<args, history, gitDirty, gitBranches, p4Vars, raised,
                 setupVars, commit_list, seedVars, loopVars, commitVars, run, outcome, start>>

Next ==
  \/ CheckLocalChanges
  \/ ComputeRange
  \/ SeedWorkspace
  \/ Reconcile
  \/ Materialize
  \/ Report
  \/ ResetP4Branch
  \/ ReturnHead
  \/ SwitchToDefault

Spec == Init /\ [][Next]_vars

\* ------------------------------------------------------- a run to its end
\* The command lines of the runs followed to their end: the flags that
\* change the path through main(); shelving and reverting add calls only.
FairArgs ==
  [p4_work : {FALSE}, no_revert : {FALSE}, no_shelve : {FALSE},
   ignore_opened : BOOLEAN, stay : BOOLEAN, no_p4_branch : BOOLEAN,
   dry_run : BOOLEAN, range : {None}]

\* The workspaces these runs start in: an empty one and one with a
\* changelist to reuse that holds a file.
FairWorkspaces ==
  { [pending |-> {}, opened |-> << >>],
    [pending |-> {Pending(10, <<"B", "\n">>)}, opened |-> OpenedIn({"f1"}, 10)] }

InitFair ==
  /\ history \in Histories
  /\ args \in {ConvenienceFlags(a) : a \in FairArgs}
  /\ gitDirty \in BOOLEAN
  /\ gitBranches = [b \in {"master", "p4"} |->
                      IF b = "p4" THEN 0 ELSE Len(history)]
  /\ gitHead = Branch("master")
  /\ \E w \in FairWorkspaces :
       /\ p4Pending = w.pending
       /\ p4Opened = w.opened
       /\ p4Shelved = [c \in {p.change : p \in w.pending} |-> {}]
  /\ pc = "start"
  /\ run = 1
  /\ LocalState
  /\ start = Snapshot(gitHead, gitBranches, p4Pending, p4Opened)

\* main() is straight-line code around one for loop: as long as a statement
\* is left to execute, the interpreter executes it.
SpecFair == InitFair /\ [][Next]_vars /\ WF_vars(Next)

\* --------------------------------------------------------------- a re-run
\* The command line of a run over an explicit range a..b.
RangeArgs(n) ==
  [p4_work : {FALSE}, no_revert : BOOLEAN, no_shelve : BOOLEAN,
   ignore_opened : BOOLEAN, stay : {FALSE}, no_p4_branch : {FALSE},
   dry_run : BOOLEAN, range : {<<"range", 0, n>>}]

\* The workspaces a re-run is studied from: nothing is opened before the
\* first run, so every opened file was opened by it.
RerunWorkspaces ==
  { [pending |-> {}, opened |-> << >>],
    [pending |-> {Pending(10, <<"B", "\n">>)}, opened |-> << >>] }

InitRerun ==
  /\ history \in Histories
  /\ args \in {ConvenienceFlags(a) : a \in RangeArgs(Len(history))}
  /\ gitDirty = FALSE
  /\ gitBranches = [b \in {"master", "p4"} |->
                      IF b = "p4" THEN 0 ELSE Len(history)]
  /\ gitHead = Branch("master")
  /\ \E w \in RerunWorkspaces :
       /\ p4Pending = w.pending
       /\ p4Opened = w.opened
       /\ p4Shelved = [c \in {p.change : p \in w.pending} |-> {}]
  /\ pc = "start"
  /\ run = 1
  /\ LocalState
  /\ start = Snapshot(gitHead, gitBranches, p4Pending, p4Opened)

\* The same command line is run again once a run has converted every commit
\* of the range; git and p4 are as that run left them.
Rerun ==
  /\ pc = "done"
  /\ run = 1
  /\ returned = ReturnNone
  /\ ~args.dry_run
  /\ last_processed_commit_idx + 1 = Len(commit_list)
  /\ run' = 2
  /\ pc' = "start"
  /\ returned' = NotReturned /\ raised' = None
  /\ current_head' = None /\ current_branch' = ""
  /\ p4_hash' = None /\ master_hash' = None
  /\ commit_list' = <<>>
  /\ files_in_p4_pending_cls' = {}
  /\ p4_reusable_cls' = << >>
  /\ ret_status' = 0
  /\ last_processed_commit_idx' = -1
  /\ commit_idx' = -1
  /\ p4_reusable_cl' = None
  /\ p4_to_rename' = <<>>
  /\ old_local_to_depot_paths' = <<>>
  /\ log' = <<>>
  /\ outcome' = << >>
  /\ start' = Snapshot(gitHead, gitBranches, p4Pending, p4Opened)
  /\ UNCHANGED <<args, gitVars, p4Vars>>

NextRerun == Next \/ Rerun

SpecRerun == InitRerun /\ [][NextRerun]_vars

\* ------------------------------------------------- a dry-run, then for real
\* The command line of a dry-run that manages the p4 branch and returns to
\* where it started.
DryRunArgs ==
  [p4_work : {FALSE}, no_revert : BOOLEAN, no_shelve : BOOLEAN,
   ignore_opened : BOOLEAN, stay : {FALSE}, no_p4_branch : {FALSE},
   dry_run : {TRUE}, range : {None}]

\* A snapshot that also keeps what the previous run decided for each commit.
SnapshotAfter(head, branches, pending, opened, previous) ==
  [head |-> head, branches |-> branches, pending |-> pending, opened |-> opened,
   previous |-> previous]

InitDryRun ==
  /\ history \in Histories
  /\ args \in {ConvenienceFlags(a) : a \in DryRunArgs}
  /\ gitDirty = FALSE
  /\ gitBranches = [b \in {"master", "p4"} |->
                      IF b = "p4" THEN 0 ELSE Len(history)]
  /\ gitHead = Branch("master")
  /\ \E w \in Workspaces :
       /\ p4Pending = w.pending
       /\ p4Opened = w.opened
       /\ p4Shelved = [c \in {p.change : p \in w.pending} |-> {}]
  /\ pc = "start"
  /\ run = 1
  /\ LocalState
  /\ start = Snapshot(gitHead, gitBranches, p4Pending, p4Opened)

\* Once the dry-run has ended, the same command line is run without
\* --dry-run; git and p4 are as the dry-run left them.
RunForReal ==
  /\ pc = "done"
  /\ run = 1
  /\ args.dry_run
  /\ args' = [args EXCEPT !.dry_run = FALSE]
  /\ run' = 2
  /\ pc' = "start"
  /\ returned' = NotReturned /\ raised' = None
  /\ current_head' = None /\ current_branch' = ""
  /\ p4_hash' = None /\ master_hash' = None
  /\ commit_list' = <<>>
  /\ files_in_p4_pending_cls' = {}
  /\ p4_reusable_cls' = << >>
  /\ ret_status' = 0
  /\ last_processed_commit_idx' = -1
  /\ commit_idx' = -1
  /\ p4_reusable_cl' = None
  /\ p4_to_rename' = <<>>
  /\ old_local_to_depot_paths' = <<>>
  /\ log' = <<>>
  /\ outcome' = << >>
  /\ start' = SnapshotAfter(gitHead, gitBranches, p4Pending, p4Opened, outcome)
  /\ UNCHANGED <<gitVars, p4Vars>>

NextDryRun == Next \/ RunForReal

SpecDryRun == InitDryRun /\ [][NextDryRun]_vars

\* ================================================================ properties
MutatingCmds ==
  {"git checkout", "git reset --hard", "p4 change -i", "p4 add", "p4 edit",
   "p4 delete", "p4 edit -k", "p4 move -k", "p4 reopen", "p4 shelve",
   "p4 revert -k"}

Decided == DOMAIN outcome
Converted(i) == i \in Decided /\ outcome[i].kind = "converted"
\* destination paths and rename source paths of the commit at index i
Touched(i) == SeqToSet(GitAllFiles(CommitAt(i)))
TrimmedMsg(i) == Strip(CommitAt(i).msg)
\* positions of the log holding a call of the iteration for commit i
CallsAt(i) == {k \in 1..Len(log) : log[k].at = i}
NoMutationAt(i) == \A k \in CallsAt(i) : log[k].cmd \notin MutatingCmds
CreatedAt(i) == \E k \in CallsAt(i) : log[k].cmd = "p4 change -i"
ConvertedCount == last_processed_commit_idx + 1

\* C1 (as claimed): once a commit is converted, a later commit of the run
\* that touches one of its paths is never converted and no mutating call is
\* issued for it: no path is claimed by two converted commits of one run.
C1_NoPathClaimedTwice ==
  \A i, j \in Decided :
    (i < j /\ Converted(i) /\ Touched(i) \cap Touched(j) # {})
      => /\ ~Converted(j)
         /\ NoMutationAt(j)

\* C2 (as claimed): two converted commits with the same trimmed message,
\* the first one's changelist holding only files of the second when the
\* second is processed, use the same changelist.
C2_SameMessageSameChangelist ==
  \A i, j \in Decided :
    (/\ i < j /\ Converted(i) /\ Converted(j)
     /\ TrimmedMsg(i) = TrimmedMsg(j)
     /\ outcome[i].change \in outcome[j].fits)
      => /\ outcome[j].change = outcome[i].change
         /\ ~CreatedAt(j)

\* C2 (amended): the same, provided the first commit's changelist came from
\* the reuse index, that is, was pending when the run started; a changelist
\* created during the run is never the reuse candidate of a later commit.
C2_IndexedChangelistShared ==
  /\ \A i, j \in Decided :
       (/\ i < j /\ Converted(i) /\ Converted(j)
        /\ TrimmedMsg(i) = TrimmedMsg(j)
        /\ outcome[i].change \in outcome[j].fits
        /\ outcome[i].reuse # None)
         => /\ outcome[j].change = outcome[i].change
            /\ ~CreatedAt(j)
  /\ \A i, j \in Decided :
       (i < j /\ Converted(i) /\ outcome[i].reuse = None)
         => outcome[j].reuse # Some(outcome[i].change)

C2_Witness ==
  \E i, j \in Decided :
    /\ i < j /\ Converted(i) /\ Converted(j)
    /\ TrimmedMsg(i) = TrimmedMsg(j)
    /\ CommitAt(i).msg # CommitAt(j).msg
    /\ outcome[i].reuse # None
    /\ outcome[j].change = outcome[i].change

\* C3 (as claimed): a re-run over a fully converted range creates no
\* changelist and converts every commit.
C3_RerunConvertsAll ==
  (run = 2 /\ pc = "done")
    => /\ ConvertedCount = Len(commit_list)
       /\ \A k \in 1..Len(log) : log[k].cmd # "p4 change -i"

\* C3 (amended): a re-run over a fully converted range creates no
\* changelist: every commit it reaches has a reuse candidate.
C3_RerunCreatesNothing ==
  run = 2
    => /\ \A k \in 1..Len(log) : log[k].cmd # "p4 change -i"
       /\ \A i \in Decided : outcome[i].reuse # None

C3_Witness ==
  /\ run = 2 /\ pc = "done"
  /\ Len(commit_list) = 2 /\ ConvertedCount = 2
  /\ TrimmedMsg(0) = TrimmedMsg(1)

Renames(i) == Classified(CommitAt(i)).rename
OpenedByKind(i) ==
  Classified(CommitAt(i)).add \cup Classified(CommitAt(i)).edit
    \cup Classified(CommitAt(i)).delete

\* C4: for every rename of a converted commit there is exactly one
\* `edit -k` of the old path's depot file, the call right after it is the
\* one `move -k old new` of that rename, the commit's reopen names the
\* destination together with the add/edit/delete paths, and the destination
\* is then in the commit's changelist (opened, or on its shelf once
\* reverted).
C4_RenameEditThenMove ==
  /\ \A i \in Decided : Converted(i) =>
       /\ \A ren \in Renames(i) :
            LET edits == {k \in CallsAt(i) : /\ log[k].cmd = "p4 edit -k"
                                             /\ log[k].paths = <<P4Fstat(ren[1])>>}
                moves == {k \in CallsAt(i) : /\ log[k].cmd = "p4 move -k"
                                             /\ log[k].paths = <<ren[1], ren[2]>>}
            IN /\ Cardinality(edits) = 1
               /\ Cardinality(moves) = 1
               /\ \A e \in edits : e + 1 \in moves
               /\ \E r \in CallsAt(i) :
                    /\ log[r].cmd = "p4 reopen"
                    /\ \A m \in moves : m < r
                    /\ log[r].change = outcome[i].change
                    /\ {ren[2]} \cup OpenedByKind(i) \subseteq SeqToSet(log[r].paths)
       /\ Cardinality({k \in CallsAt(i) : log[k].cmd = "p4 edit -k"})
            = Cardinality(Renames(i))
       /\ Cardinality({k \in CallsAt(i) : log[k].cmd = "p4 move -k"})
            = Cardinality(Renames(i))
  /\ (commit_idx >= 0 /\ Converted(commit_idx)) =>
       \A f \in {ren[2] : ren \in Renames(commit_idx)} \cup OpenedByKind(commit_idx) :
         LET cl == outcome[commit_idx].change IN
           /\ (args.no_shelve \/ args.no_revert) =>
                (P4Fstat(f) \in DOMAIN p4Opened /\ p4Opened[P4Fstat(f)] = cl)
           /\ ~args.no_shelve => P4Fstat(f) \in p4Shelved[cl]

C4_Witness ==
  \E i \in Decided :
    /\ Converted(i)
    /\ Cardinality(Renames(i)) = 2
    /\ OpenedByKind(i) # {}

\* C5: under --dry-run no mutating call is ever issued, and git's position
\* and branches and p4's changelists and opened files stay as they were.
C5_DryRunMutatesNothing ==
  args.dry_run
    => /\ \A k \in 1..Len(log) : log[k].cmd \notin MutatingCmds
       /\ gitHead = start.head
       /\ gitBranches = start.branches
       /\ p4Opened = start.opened
       /\ p4Pending = start.pending

C5_Witness ==
  /\ args.dry_run
  /\ pc = "done" /\ returned = ReturnNone
  /\ ConvertedCount = 2
  /\ \E i \in Decided : outcome[i].kind = "reported" /\ Renames(i) # {}

\* C6 (as claimed): unless --ignore-opened is given, the files opened in a
\* pending changelist whose description matches no commit of the run stay
\* where they are.
C6_ForeignChangelistsUntouched ==
  ~args.ignore_opened =>
    \A p \in start.pending :
      (\A i \in 0..(Len(commit_list) - 1) : TrimmedMsg(i) # Strip(p.desc))
        => OpenedFiles(p4Opened, p.change) = OpenedFiles(start.opened, p.change)

Fatal(i) == i \in Decided /\ outcome[i].kind \in {"mismatch", "conflict", "unsupported"}

\* C7 (as claimed): main() returns 0 when every commit of the range was
\* converted, and 1 when a fatal reconciliation error or the dirty check
\* stopped the run.
C7_ExitStatus ==
  pc = "done" =>
    /\ (~args.dry_run /\ commit_list # <<>> /\ ConvertedCount = Len(commit_list))
         => returned = Return(0)
    /\ (gitDirty \/ \E i \in Decided : Fatal(i)) => returned = Return(1)

\* C8 (as claimed): with the p4 branch managed and no dry-run, once the
\* branch has been reset it is at the last converted commit, and it is never
\* moved to a commit that was not converted.
C8_TrackingBranchAtLastConverted ==
  (~args.no_p4_branch /\ ~args.dry_run /\ pc \in {"return", "switch", "done"}
   /\ commit_list # <<>>)
    => IF ConvertedCount > 0
       THEN gitBranches["p4"] = PyAt(commit_list, ConvertedCount - 1)
       ELSE gitBranches["p4"] = start.branches["p4"]

\* C9 (as claimed): without --stay (and without dry-run) every run that got
\* past the dirty check and ran its loop to the end or to a reconciliation
\* error ends where git was when it started; with --stay no checkout of the
\* starting position is issued.
C9_PositionRestored ==
  (/\ ~args.dry_run
   /\ commit_list # <<>>
   /\ \/ pc = "done"
      \/ pc = "crashed" /\ raised = Some("TypeError"))
    => IF ~args.stay
       THEN gitHead = start.head
       ELSE \A k \in 1..Len(log) :
              ~(log[k].cmd = "git checkout" /\ log[k].at = -1
                /\ log[k].ref = start.head)

\* C10 (as claimed): when fstat returns no record for the old path of one
\* of a commit's renames, no mutating call is issued for that commit; and
\* every `edit -k` names the depot file of the old path of the move that
\* follows it.
C10_RenameResolvedBeforeMutation ==
  /\ (commit_idx >= 0 /\ Len(old_local_to_depot_paths) < Len(p4_to_rename))
       => NoMutationAt(commit_idx)
  /\ \A k \in 1..Len(log) :
       log[k].cmd = "p4 edit -k"
         => /\ k < Len(log)
            /\ log[k + 1].cmd = "p4 move -k"
            /\ log[k].paths = <<P4Fstat(log[k + 1].paths[1])>>

\* C11: when the range holds no commit the run returns 0 with no gateway
\* call issued (no p4 call, no checkout), git and p4 as they were, and no
\* commit decided or counted as converted.
C11_EmptyRangeDoesNothing ==
  (~gitDirty /\ pc \notin {"start", "range"}
   /\ RevList(HashRange[1], HashRange[2]) = <<>>)
    => /\ pc = "done"
       /\ returned = Return(0)
       /\ log = <<>>
       /\ Decided = {}
       /\ ConvertedCount = 0
       /\ gitHead = start.head /\ gitBranches = start.branches
       /\ p4Pending = start.pending /\ p4Opened = start.opened

C11_Witness ==
  /\ ~gitDirty /\ pc = "done" /\ returned = Return(0)
  /\ commit_list = <<>>
  /\ start.opened # << >>

\* C12: when git has local modifications the run returns 1 with no commit
\* decided and no gateway call issued, git and p4 as they were.
C12_DirtyStopsBeforeAnything ==
  gitDirty
    => /\ pc \in {"start", "done"}
       /\ pc = "done" => returned = Return(1)
       /\ log = <<>>
       /\ Decided = {}
       /\ commit_list = <<>>
       /\ gitHead = start.head /\ gitBranches = start.branches
       /\ p4Pending = start.pending /\ p4Opened = start.opened

C12_Witness ==
  /\ gitDirty /\ pc = "done" /\ returned = Return(1)
  /\ Len(history) = 2

\* the mutating calls issued for the commit at index i, in order
MutatingAt(i) ==
  LET Mine(c) == c.at = i /\ c.cmd \in MutatingCmds IN SelectSeq(log, Mine)

\* The order lines 270-317 issue the mutating commands in for commit i.
ExpectedCmds(i) ==
  LET cls == Classified(CommitAt(i))
      n == Cardinality(cls.rename)
      opt(cond, cmd) == IF cond THEN <<cmd>> ELSE <<>>
  IN <<"git checkout">>
     \o opt(outcome[i].reuse = None, "p4 change -i")
     \o opt(cls.add # {}, "p4 add")
     \o opt(cls.edit # {}, "p4 edit")
     \o opt(cls.delete # {}, "p4 delete")
     \o [k \in 1..(2 * n) |-> IF k % 2 = 1 THEN "p4 edit -k" ELSE "p4 move -k"]
     \o <<"p4 reopen">>
     \o opt(~args.no_shelve, "p4 shelve")
     \o opt(~args.no_shelve /\ ~args.no_revert, "p4 revert -k")

\* main() got past its loop (line 344 has logged the converted count).
PastLoop ==
  \/ pc \in {"finish", "return", "switch", "done"} /\ commit_list # <<>>
  \/ pc = "crashed" /\ raised \in {Some("TypeError"), Some("GitError")}

\* C13: the mutating calls of a converted commit are, in this order: the
\* checkout of the commit, the creation (only without reuse candidate, the
\* changelist saved with the whole commit message), add, edit, delete, the
\* renames, one reopen of all touched paths, shelve, revert (as the flags
\* allow).  Reopen, shelve and revert name the changelist the creation
\* answered, or the reused one.  On an empty workspace a run over one commit
\* with recognized statuses that gets past its loop counts 1 converted.
C13_MaterializeOrder ==
  /\ \A i \in Decided : Converted(i) =>
       LET calls == MutatingAt(i)
           cl == outcome[i].change
       IN /\ [k \in 1..Len(calls) |-> calls[k].cmd] = ExpectedCmds(i)
          /\ calls[1].ref = Detached(PyAt(commit_list, i))
          /\ \A k \in 1..Len(calls) :
               /\ calls[k].cmd \in {"p4 reopen", "p4 shelve", "p4 revert -k"}
                    => calls[k].change = cl
               /\ calls[k].cmd = "p4 reopen" => calls[k].paths = GitAllFiles(CommitAt(i))
               /\ calls[k].cmd = "p4 change -i"
                    => /\ calls[k].change = cl
                       /\ cl \notin {q.change : q \in start.pending}
                       /\ Pending(cl, CommitAt(i).msg) \in p4Pending
          /\ outcome[i].reuse # None => cl = outcome[i].reuse[1]
  /\ (/\ ~args.dry_run /\ PastLoop
      /\ start.pending = {} /\ start.opened = << >>
      /\ Len(commit_list) = 1
      /\ Classified(CommitAt(0)).ret_status = 0)
       => /\ ConvertedCount = 1
          /\ Converted(0)

C13_Witness ==
  /\ ~args.dry_run /\ pc = "done"
  /\ start.pending = {} /\ Len(commit_list) = 1
  /\ Converted(0) /\ outcome[0].reuse = None
  /\ Len(ExpectedCmds(0)) = 10

\* C14: when the reuse candidate of a commit holds, as the commit is
\* processed, an opened file that is not among the commit's files, the
\* commit ends as a reuse mismatch: no mutating call is issued for it, it
\* is not counted as converted, and no later commit is processed.
C14_ReuseMismatchStops ==
  \A i \in Decided :
    (outcome[i].reuse # None /\ outcome[i].reuse[1] \notin outcome[i].fits)
      => /\ outcome[i].kind = "mismatch"
         /\ NoMutationAt(i)
         /\ ConvertedCount <= i
         /\ ret_status = 1
         /\ pc \notin {"loop", "apply"}
         /\ \A j \in (i + 1)..(Len(commit_list) - 1) :
              j \notin Decided /\ CallsAt(j) = {}

C14_Witness ==
  \E i \in Decided :
    /\ outcome[i].kind = "mismatch" /\ i = 1
    /\ Len(commit_list) = 2
    /\ ~args.dry_run /\ pc = "done"

\* the reuse candidate of commit i was found and every file opened in it,
\* as the commit was processed, belongs to the commit
ReuseFits(i) == outcome[i].reuse # None /\ outcome[i].reuse[1] \in outcome[i].fits
\* `p4 where` was run on the candidate's opened files: there were some
CandidateHeldFiles(i) == \E k \in CallsAt(i) : log[k].cmd = "p4 where"

\* C15 (as claimed): a commit whose reuse candidate holds no file, or only
\* files of the commit, never goes through the ledger check: the ledger is
\* not consulted and cannot stop the commit.
C15_ReuseSkipsLedger ==
  \A i \in Decided :
    ReuseFits(i) => (~outcome[i].checked /\ outcome[i].kind # "conflict")

\* C15 (amended): when the candidate holds files, all of them the commit's,
\* the ledger is neither consulted nor changed and the commit is not stopped
\* by it; when the candidate holds no file the ledger check is made as for
\* a commit without candidate.  In both cases the commit, if converted, goes
\* into the candidate and no changelist is created.
C15_ReuseSkipsLedgerUnlessEmpty ==
  /\ [](\A i \in Decided :
          ReuseFits(i) =>
            /\ CandidateHeldFiles(i) => (~outcome[i].checked /\ outcome[i].kind # "conflict")
            /\ ~CandidateHeldFiles(i) => outcome[i].checked
            /\ Converted(i) => (outcome[i].change = outcome[i].reuse[1] /\ ~CreatedAt(i)))
  /\ [][(pc = "loop" /\ ~outcome'[commit_idx'].checked)
          => files_in_p4_pending_cls' = files_in_p4_pending_cls]_vars

C15_Witness ==
  \E i, j \in Decided :
    /\ ReuseFits(i) /\ CandidateHeldFiles(i) /\ Converted(i)
    /\ ReuseFits(j) /\ ~CandidateHeldFiles(j) /\ outcome[j].kind = "conflict"

\* commit i got past the reuse validation and the ledger check
PassedChecks(i) == i \in Decided /\ outcome[i].kind \notin {"mismatch", "conflict"}

\* C16 (as claimed): once a commit is past the reuse validation and the
\* ledger check, with a new changelist or a reused one, every path it
\* touches is in the ledger (so before any mutating call for it), and no
\* path ever leaves the ledger.
C16_TouchedPathsInLedger ==
  /\ [](\A i \in Decided : PassedChecks(i) => Touched(i) \subseteq files_in_p4_pending_cls)
  /\ [][files_in_p4_pending_cls \subseteq files_in_p4_pending_cls']_vars

\* positions of `p4 changes`' answer whose stripped description is key
ListedAs(key) == {k \in 1..Len(P4Changes) : Strip(P4Changes[k].desc) = key}
\* the index has just been built (the workspace is as `p4 changes` saw it)
IndexJustBuilt == pc = "loop" /\ commit_idx = -1

\* C17 (as claimed): the reuse index has one changelist for each stripped
\* description of a listed pending changelist, the first one listed.
C17_IndexHoldsFirstListed ==
  IndexJustBuilt =>
    /\ DOMAIN p4_reusable_cls = {Strip(P4Changes[k].desc) : k \in 1..Len(P4Changes)}
    /\ \A key \in DOMAIN p4_reusable_cls :
         \E k \in ListedAs(key) :
           /\ \A m \in ListedAs(key) : k <= m
           /\ p4_reusable_cls[key] = P4Changes[k].change

\* C17 (amended): the same, but the changelist held is the last one listed
\* with that stripped description.
C17_IndexHoldsLastListed ==
  IndexJustBuilt =>
    /\ DOMAIN p4_reusable_cls = {Strip(P4Changes[k].desc) : k \in 1..Len(P4Changes)}
    /\ \A key \in DOMAIN p4_reusable_cls :
         \E k \in ListedAs(key) :
           /\ \A m \in ListedAs(key) : m <= k
           /\ p4_reusable_cls[key] = P4Changes[k].change

C17_Witness ==
  /\ IndexJustBuilt
  /\ \E key \in DOMAIN p4_reusable_cls : Cardinality(ListedAs(key)) = 2

\* What steps 1-4 decided for a commit: one of the three fatal outcomes, or
\* that the commit goes on.
Decision(o) == IF o.kind \in {"mismatch", "conflict", "unsupported"} THEN o.kind
               ELSE "passed"
\* the commits both the dry-run and the real run after it decided
DecidedByBoth == Decided \cap DOMAIN start.previous

\* C18 (as claimed): a dry-run and the real run over the same commits, from
\* the same workspace and with the same other flags, both ended without
\* exception, decided the same commits, each with the same reuse candidate
\* and the same decision.
C18_DryRunDecidesAsRealRun ==
  (run = 2 /\ pc = "done")
    => /\ Decided = DOMAIN start.previous
       /\ \A i \in DecidedByBoth :
            /\ outcome[i].reuse = start.previous[i].reuse
            /\ Decision(outcome[i]) = Decision(start.previous[i])

\* C18 (amended): the two runs choose the same reuse candidate, or none,
\* for every commit both decide; they make the same decision for the first
\* commit and for every commit up to which no commit has a reuse candidate.
C18_DryRunDecidesAsRealRunAtFirst ==
  run = 2
    => \A i \in DecidedByBoth :
         /\ outcome[i].reuse = start.previous[i].reuse
         /\ (i = 0 \/ \A j \in 0..i : outcome[j].reuse = None)
              => Decision(outcome[i]) = Decision(start.previous[i])

C18_Witness ==
  /\ run = 2 /\ pc = "done"
  /\ \E i \in DecidedByBoth :
       /\ i = 1 /\ outcome[0].reuse # None
       /\ Decision(start.previous[i]) = "mismatch"
       /\ Converted(i)

\* The fatal conditions: the three that end the loop with ret_status = 1 and
\* the three that raise an exception (a required record is missing, a
\* gateway command fails, the creation's confirmation cannot be parsed).
BreakKinds == {"mismatch", "conflict", "unsupported"}
RaiseKinds == {"notfound", "p4error", "unparsable"}
\* main() is over: it returned or an exception ended it
Ended == pc \in {"done", "crashed"}
\* the counts logged by line 344
ReportedCounts ==
  {log[k].ref[2] : k \in {m \in 1..Len(log) : log[m].cmd = "log Converted commits"}}
\* the run stopped at commit i: nothing was decided or issued for a later
\* commit and i is not counted
HaltedAt(i) ==
  /\ pc \notin {"loop", "apply"}
  /\ last_processed_commit_idx = i - 1
  /\ \A j \in (i + 1)..(Len(commit_list) - 1) : j \notin Decided /\ CallsAt(j) = {}

\* C19 (as claimed): every fatal condition stops the run at the commit it
\* occurs at, and the run, once over, has reported the number of commits
\* converted before it.
C19_FatalHaltsAndReports ==
  \A i \in Decided :
    outcome[i].kind \in BreakKinds \cup RaiseKinds
      => /\ HaltedAt(i)
         /\ Ended => ReportedCounts = {i}

\* C19 (amended): every fatal condition stops the run at the commit it
\* occurs at.  After a reuse mismatch, a conflict or an unknown status the
\* run, once over, has reported the number of commits converted before it;
\* a missing record, a failed gateway command or an unparsable confirmation
\* raises an exception that ends the program with nothing reported and no
\* call issued afterwards.
C19_FatalHaltsBreakReports ==
  \A i \in Decided :
    /\ outcome[i].kind \in BreakKinds
         => /\ HaltedAt(i)
            /\ ret_status = 1
            /\ Ended => ReportedCounts = {i}
    /\ outcome[i].kind \in RaiseKinds
         => /\ HaltedAt(i)
            /\ pc = "crashed" /\ raised \in {Some("P4EntryNotFound"), Some("P4Error")}
            /\ returned = NotReturned
            /\ ReportedCounts = {}
            /\ log[Len(log)].at = i

C19_Witness ==
  /\ Ended /\ Len(commit_list) = 2
  /\ \E i \in Decided : i = 1 /\ outcome[i].kind = "conflict" /\ ReportedCounts = {1}

\* the diff of commit i has a line whose status letter is not A, M, D or R
HasUnknownStatus(i) ==
  \E k \in 1..Len(CommitAt(i).diff) :
    Head(CommitAt(i).diff[k].status) \notin {"A", "M", "D", "R"}

\* C20: a commit with a status other than A, M, D, R stops the run where
\* it is processed: none of its files is opened (the known changes are not
\* applied either), no mutating call at all is issued for it, it is not
\* counted as converted and no later commit is processed.
C20_UnknownStatusStops ==
  \A i \in Decided :
    HasUnknownStatus(i)
      => /\ outcome[i].kind \in BreakKinds
         /\ NoMutationAt(i)
         /\ HaltedAt(i)
         /\ ret_status = 1
         /\ Len(commit_list) = 1
              => p4Opened = start.opened /\ p4Pending = start.pending

C20_Witness ==
  \E i \in Decided :
    /\ i = 1 /\ HasUnknownStatus(i) /\ outcome[i].kind = "unsupported"
    /\ Converted(0)
    /\ Classified(CommitAt(i)).edit # {}
    /\ Ended

\* the positions of the log holding a call of command cmd for commit i
CmdAt(cmd, i) == {k \in CallsAt(i) : log[k].cmd = cmd}

\* C21: a `revert -k` comes only directly after the shelve of the same
\* changelist for the same commit.  With --no-shelve neither is ever issued,
\* with --no-revert the revert never is, and a real run issues for each
\* converted commit one shelve unless --no-shelve, followed by one revert
\* unless --no-revert as well.
C21_RevertOnlyAfterShelve ==
  /\ \A k \in 1..Len(log) :
       log[k].cmd = "p4 revert -k"
         => /\ k > 1
            /\ log[k - 1].cmd = "p4 shelve"
            /\ log[k - 1].change = log[k].change
            /\ log[k - 1].at = log[k].at
  /\ \A k \in 1..Len(log) :
       /\ args.no_shelve => log[k].cmd \notin {"p4 shelve", "p4 revert -k"}
       /\ args.no_revert => log[k].cmd # "p4 revert -k"
  /\ \A i \in Decided :
       Converted(i) /\ ~args.dry_run
         => /\ Cardinality(CmdAt("p4 shelve", i)) = IF args.no_shelve THEN 0 ELSE 1
            /\ Cardinality(CmdAt("p4 revert -k", i))
                 = IF args.no_shelve \/ args.no_revert THEN 0 ELSE 1
            /\ \A k \in CmdAt("p4 shelve", i) : log[k].change = outcome[i].change

C21_Witness ==
  /\ pc = "done" /\ ~args.dry_run /\ ~args.no_shelve /\ ~args.no_revert
  /\ Converted(0) /\ Converted(1)
  /\ outcome[0].change # outcome[1].change
  /\ \A i \in {0, 1} : \E k \in CmdAt("p4 revert -k", i) : log[k - 1].cmd = "p4 shelve"

\* The commits of the default range p4..master of the history, oldest first.
Chronological == [k \in 1..Len(history) |-> k]

\* the commit at index i went through its whole iteration: materialized by
\* a real run, listed by a dry run
Counted(i) == i \in Decided /\ outcome[i].kind \in {"converted", "reported"}

\* The commits decided so far are the first of the list, the converted ones
\* the first ConvertedCount of it, and a count that was logged is that count.
ConvertedPrefix ==
  /\ commit_list \in {<<>>, Chronological}
  /\ \E m \in 0..Len(commit_list) : Decided = 0..(m - 1)
  /\ {i \in Decided : Counted(i)} = 0..(ConvertedCount - 1)
  /\ Decided \subseteq 0..ConvertedCount
  /\ 0 <= ConvertedCount /\ ConvertedCount <= Len(commit_list)
  /\ ReportedCounts \subseteq {ConvertedCount}
  /\ pc = "done" /\ commit_list # <<>> => ReportedCounts = {ConvertedCount}
  /\ \A a, b \in 1..Len(log) :
       a < b /\ log[a].at >= 0 /\ log[b].at >= 0 => log[a].at <= log[b].at

\* a commit is decided once (a planned commit is then applied or listed),
\* and the count never goes back
OnePass ==
  /\ \A i \in Decided :
       /\ i \in DOMAIN outcome'
       /\ outcome[i].kind # "planned" => outcome'[i] = outcome[i]
  /\ last_processed_commit_idx' >= last_processed_commit_idx
  /\ commit_list # <<>> => commit_list' = commit_list

\* C22: the commits are processed one at a time, oldest first (the reverse
\* of what `git rev-list` prints); in every state the converted commits are
\* the first k commits of that order, k being the count line 344 logs, with
\* 0 <= k <= the number of commits; no commit is decided twice and the run
\* ends (main returns or an exception ends it).
C22_ChronologicalPrefixOnePass ==
  /\ []ConvertedPrefix
  /\ [][OnePass]_vars
  /\ <>Ended

C22_Witness ==
  /\ pc = "done" /\ Len(commit_list) = 2
  /\ Decided = {0, 1} /\ Converted(0) /\ ~Converted(1)
  /\ ReportedCounts = {1}
  /\ \E k \in CallsAt(0) : log[k].cmd = "p4 reopen"

====
